---- MODULE Spec2Model ----
(***************************************************************************)
(* TaskFlow API: the task table (models.py) and the six request handlers   *)
(* of routes.py, each run inside a per-request storage session (get_db).   *)
(*                                                                         *)
(* A request is a small process: it opens its session and has its body     *)
(* validated, runs the handler's query, commits, refreshes, has its answer *)
(* validated against the response model, closes the session and answers.   *)
(*                                                                         *)
(*   Spec      one worker, requests served one after the other             *)
(*   SpecHist  the same, with the previous answer remembered (prev)        *)
(*   SpecConc  two workers whose storage statements interleave             *)
(*                                                                         *)
(* pre and prev are observers: no handler reads them.                      *)
(***************************************************************************)
EXTENDS Integers, Sequences, FiniteSets, TLC

VARIABLES
    store,      \* the task table: slot -> row
    sessions,   \* requests whose storage session is open
    closed,     \* per request: how many times its session was closed
    pc,         \* per request: position in the request pipeline
    req,        \* per request: operation, path id and raw JSON body
    obj,        \* per request: the TaskModel object held by its session
    resp,       \* per request: the HTTP answer
    pre,        \* the table as it was when the request being served arrived
    prev        \* the last request answered

vars == <<store, sessions, closed, pc, req, obj, resp, pre, prev>>

(***************************************************************************)
(* Bounds and value sets                                                   *)
(***************************************************************************)
MaxRows == 2                       \* cap on the number of rows of the table

Reqs == {"r1", "r2"}               \* request slots (worker threads)
Ids == {"id1", "id2"}              \* values uuid4() / the path parameter take
Dates == {"2026-01-01", "2026-12-31"}
Statuses == {"archived"}           \* free-text status strings a client sends

min_length == 1
max_length == 200

TitleOfLen(n) == [i \in 1..n |-> "x"]
\* an empty title, a shortest valid one, and one that is one character too long
Titles == {TitleOfLen(0), TitleOfLen(min_length), TitleOfLen(max_length + 1)}

\* Python's Optional values
None == [some |-> FALSE]
Some(v) == [some |-> TRUE, val |-> v]

\* a field of a raw JSON body: key absent, key with null, key with a value
Omitted == [tag |-> "omitted"]
Null == [tag |-> "null"]
Given(v) == [tag |-> "value", val |-> v]

RawField(values) == {Omitted, Null} \cup {Given(v) : v \in values}

NoBody == [title |-> Omitted, due_date |-> Omitted, status |-> Omitted]
CreateBodies == [title : RawField(Titles), due_date : RawField(Dates), status : {Omitted}]
UpdateBodies == [title : RawField(Titles), due_date : RawField(Dates), status : RawField(Statuses)]

NoId == "-"
NoReq == [op |-> "none", task_id |-> NoId, body |-> NoBody]
NoResp == [status_code |-> 0, body |-> {}]

(***************************************************************************)
(* Request schemas (pydantic)                                              *)
(***************************************************************************)
\* Optional[...] = None: an absent key and a null both parse to None
Optional(field) == IF field.tag = "value" THEN Some(field.val) ELSE None

\* title: str = Field(..., min_length=1, max_length=200)
TitleOk(title) == Len(title) >= min_length /\ Len(title) <= max_length

\* TaskCreate.title is required and constrained
ValidTitle(field) == field.tag = "value" /\ TitleOk(field.val)

TaskCreate(body) == [title |-> body.title.val, due_date |-> Optional(body.due_date)]

TaskUpdate(body) ==
    [title |-> Optional(body.title),
     due_date |-> Optional(body.due_date),
     status |-> Optional(body.status)]

\* the body validation FastAPI runs before it calls the handler
Validates(op, body) == IF op = "create_task" THEN ValidTitle(body.title) ELSE TRUE

(***************************************************************************)
(* The task table                                                          *)
(***************************************************************************)
EmptyTable == <<>>

Matching(table, id) == {k \in DOMAIN table : table[k].id = id}

AllRows(table) == {table[k] : k \in DOMAIN table}

\* db.query(TaskModel).filter(TaskModel.id == task_id).first()
QueryFirst(table, id) ==
    IF Matching(table, id) = {} THEN None
    ELSE Some(table[CHOOSE k \in Matching(table, id) : \A j \in Matching(table, id) : k <= j])

\* (mutant) a table whose id column is no key: every INSERT is accepted
PrimaryKeyFree_Unchecked(table, id) == TRUE

\* id = Column(String, primary_key=True): INSERT is refused when the key is taken
PrimaryKeyFree(table, id) == Matching(table, id) = {}

\* the slot a new row goes to: the first free one
NextRowid(table) ==
    CHOOSE k \in 1..(Cardinality(DOMAIN table) + 1) :
        /\ k \notin DOMAIN table
        /\ \A j \in 1..(k - 1) : j \in DOMAIN table

InsertRow(table, row) ==
    [k \in DOMAIN table \cup {NextRowid(table)} |->
        IF k \in DOMAIN table THEN table[k] ELSE row]

\* UPDATE task SET <changed columns> WHERE task.id = :id
UpdateRows(table, task, dirty) ==
    [k \in DOMAIN table |->
        IF table[k].id # task.id THEN table[k]
        ELSE [id |-> table[k].id,
              title |-> IF "title" \in dirty THEN task.title ELSE table[k].title,
              due_date |-> IF "due_date" \in dirty THEN task.due_date ELSE table[k].due_date,
              status |-> IF "status" \in dirty THEN task.status ELSE table[k].status]]

\* (mutant) a DELETE that lost its WHERE clause
DeleteRows_All(table, id) == EmptyTable

\* DELETE FROM task WHERE task.id = :id
DeleteRows(table, id) == [k \in DOMAIN table \ Matching(table, id) |-> table[k]]

(***************************************************************************)
(* Handlers' in-memory steps                                               *)
(***************************************************************************)
\* (mutant) a constructor call that forgets due_date
NewTask_DropsDueDate(id, payload) ==
    [id |-> id, title |-> payload.title, due_date |-> None, status |-> "pending"]

\* TaskModel(id=str(uuid4()), title=payload.title, due_date=payload.due_date, status="pending")
NewTask(id, payload) ==
    [id |-> id, title |-> payload.title, due_date |-> payload.due_date, status |-> "pending"]

\* (mutant) an update that falls back to the default status when none is sent
ApplyUpdate_ResetsStatus(task, payload) ==
    [id |-> task.id,
     title |-> IF payload.title # None THEN payload.title.val ELSE task.title,
     due_date |-> IF payload.due_date # None THEN payload.due_date ELSE task.due_date,
     status |-> IF payload.status # None THEN payload.status.val ELSE "pending"]

\* (mutant) an update that assigns due_date without the "is not None" test
ApplyUpdate_AssignsDueDate(task, payload) ==
    [id |-> task.id,
     title |-> IF payload.title # None THEN payload.title.val ELSE task.title,
     due_date |-> payload.due_date,
     status |-> IF payload.status # None THEN payload.status.val ELSE task.status]

\* update_task: "Update fields only if provided"
ApplyUpdate(task, payload) ==
    [id |-> task.id,
     title |-> IF payload.title # None THEN payload.title.val ELSE task.title,
     due_date |-> IF payload.due_date # None THEN payload.due_date ELSE task.due_date,
     status |-> IF payload.status # None THEN payload.status.val ELSE task.status]

\* (mutant) a Complete that toggles
ApplyComplete_Toggles(task) ==
    [id |-> task.id, title |-> task.title, due_date |-> task.due_date,
     status |-> IF task.status = "completed" THEN "pending" ELSE "completed"]

\* complete_task: task.status = "completed"
ApplyComplete(task) ==
    [id |-> task.id, title |-> task.title, due_date |-> task.due_date, status |-> "completed"]

\* the columns the session's flush writes: those whose value differs from the loaded one
Dirty(loaded, task) ==
    {c \in {"title", "due_date", "status"} : loaded[c] # task[c]}

\* (mutant) get_db without try/finally: a raise skips db.close()
AfterRaise_NoFinally == "done"

\* get_db's try/finally: a handler that raises still goes through db.close()
AfterRaise == "close"

Reply(code, rows) == [status_code |-> code, body |-> rows]

\* response_model=Task / List[Task]: what a handler returns is validated
\* against Task, which inherits TaskCreate's constraint on title; a record
\* that fails it makes the request end in a server error
response_model(rows) ==
    IF \A t \in rows : TitleOk(t.title) THEN Reply(200, rows) ELSE Reply(500, {})

\* where a request continues once its answer is set
After(reply) == IF reply.status_code = 200 THEN "close" ELSE AfterRaise

Requests ==
    {[op |-> "create_task", task_id |-> NoId, body |-> b] : b \in CreateBodies}
    \cup {[op |-> "list_tasks", task_id |-> NoId, body |-> NoBody]}
    \cup {[op |-> o, task_id |-> i, body |-> NoBody] :
            o \in {"get_task", "complete_task", "delete_task"}, i \in Ids}
    \cup {[op |-> "update_task", task_id |-> i, body |-> b] : i \in Ids, b \in UpdateBodies}

(***************************************************************************)
(* Initial state: an empty table, no request in progress                   *)
(***************************************************************************)
Init ==
    /\ store = EmptyTable
    /\ sessions = {}
    /\ closed = [r \in Reqs |-> 0]
    /\ pc = [r \in Reqs |-> "idle"]
    /\ req = [r \in Reqs |-> NoReq]
    /\ obj = [r \in Reqs |-> None]
    /\ resp = [r \in Reqs |-> NoResp]
    /\ pre = EmptyTable
    /\ prev = [op |-> "none", task_id |-> NoId, status_code |-> 0, body |-> {}]

(***************************************************************************)
(* Steps of a request                                                      *)
(***************************************************************************)
\* A request arrives: Depends(get_db) opens the session (db = SessionLocal()),
\* then the body is validated against the handler's schema.
get_db(r, requests) ==
    /\ pc[r] = "idle"
    /\ \E q \in requests :
        /\ req' = [req EXCEPT ![r] = q]
        /\ IF Validates(q.op, q.body)
           THEN /\ pc' = [pc EXCEPT ![r] = "handler"]
                /\ resp' = [resp EXCEPT ![r] = NoResp]
           ELSE /\ pc' = [pc EXCEPT ![r] = AfterRaise]
                /\ resp' = [resp EXCEPT ![r] = Reply(422, {})]
    /\ sessions' = sessions \cup {r}
    /\ closed' = [closed EXCEPT ![r] = 0]
    /\ UNCHANGED <<store, obj>>

\* create_task up to db.commit(): the INSERT of the new row
create_task(r) ==
    /\ pc[r] = "handler"
    /\ req[r].op = "create_task"
    /\ \E id \in Ids :
        LET task == NewTask(id, TaskCreate(req[r].body)) IN
        IF PrimaryKeyFree(store, id)
        THEN /\ Cardinality(DOMAIN store) < MaxRows
             /\ store' = InsertRow(store, task)
             /\ obj' = [obj EXCEPT ![r] = Some([task |-> task, dirty |-> {}])]
             /\ pc' = [pc EXCEPT ![r] = "refresh"]
             /\ UNCHANGED resp
        ELSE \* IntegrityError raised by db.commit()
             /\ resp' = [resp EXCEPT ![r] = Reply(500, {})]
             /\ pc' = [pc EXCEPT ![r] = AfterRaise]
             /\ UNCHANGED <<store, obj>>
    /\ UNCHANGED <<sessions, closed, req, pre, prev>>

\* list_tasks: db.query(TaskModel).all()
list_tasks(r) ==
    /\ pc[r] = "handler"
    /\ req[r].op = "list_tasks"
    /\ resp' = [resp EXCEPT ![r] = response_model(AllRows(store))]
    /\ pc' = [pc EXCEPT ![r] = After(response_model(AllRows(store)))]
    /\ UNCHANGED <<store, sessions, closed, req, obj, pre, prev>>

\* get_task
get_task(r) ==
    /\ pc[r] = "handler"
    /\ req[r].op = "get_task"
    /\ LET task == QueryFirst(store, req[r].task_id) IN
        IF task = None
        THEN /\ resp' = [resp EXCEPT ![r] = Reply(404, {})]
             /\ pc' = [pc EXCEPT ![r] = AfterRaise]
        ELSE /\ resp' = [resp EXCEPT ![r] = response_model({task.val})]
             /\ pc' = [pc EXCEPT ![r] = After(response_model({task.val}))]
    /\ UNCHANGED <<store, sessions, closed, req, obj, pre, prev>>

\* update_task up to (not including) db.commit(): lookup, then the attribute assignments
update_task(r) ==
    /\ pc[r] = "handler"
    /\ req[r].op = "update_task"
    /\ LET task == QueryFirst(store, req[r].task_id) IN
        IF task = None
        THEN /\ resp' = [resp EXCEPT ![r] = Reply(404, {})]
             /\ pc' = [pc EXCEPT ![r] = AfterRaise]
             /\ UNCHANGED obj
        ELSE LET new == ApplyUpdate(task.val, TaskUpdate(req[r].body)) IN
             /\ obj' = [obj EXCEPT ![r] = Some([task |-> new, dirty |-> Dirty(task.val, new)])]
             /\ pc' = [pc EXCEPT ![r] = "commit"]
             /\ UNCHANGED resp
    /\ UNCHANGED <<store, sessions, closed, req, pre, prev>>

\* complete_task up to db.commit()
complete_task(r) ==
    /\ pc[r] = "handler"
    /\ req[r].op = "complete_task"
    /\ LET task == QueryFirst(store, req[r].task_id) IN
        IF task = None
        THEN /\ resp' = [resp EXCEPT ![r] = Reply(404, {})]
             /\ pc' = [pc EXCEPT ![r] = AfterRaise]
             /\ UNCHANGED obj
        ELSE LET new == ApplyComplete(task.val) IN
             /\ obj' = [obj EXCEPT ![r] = Some([task |-> new, dirty |-> Dirty(task.val, new)])]
             /\ pc' = [pc EXCEPT ![r] = "commit"]
             /\ UNCHANGED resp
    /\ UNCHANGED <<store, sessions, closed, req, pre, prev>>

\* delete_task up to db.commit(): lookup, db.delete(task)
delete_task(r) ==
    /\ pc[r] = "handler"
    /\ req[r].op = "delete_task"
    /\ LET task == QueryFirst(store, req[r].task_id) IN
        IF task = None
        THEN /\ resp' = [resp EXCEPT ![r] = Reply(404, {})]
             /\ pc' = [pc EXCEPT ![r] = AfterRaise]
             /\ UNCHANGED obj
        ELSE /\ obj' = [obj EXCEPT ![r] = Some([task |-> task.val, dirty |-> {}])]
             /\ pc' = [pc EXCEPT ![r] = "commit"]
             /\ UNCHANGED resp
    /\ UNCHANGED <<store, sessions, closed, req, pre, prev>>

\* db.commit() of update_task and complete_task: the flush writes the changed
\* columns; an UPDATE that matches no row raises StaleDataError
commit_update(r) ==
    /\ pc[r] = "commit"
    /\ req[r].op \in {"update_task", "complete_task"}
    /\ LET o == obj[r].val IN
        IF o.dirty = {}
        THEN /\ pc' = [pc EXCEPT ![r] = "refresh"]
             /\ UNCHANGED <<store, resp>>
        ELSE IF Matching(store, o.task.id) = {}
        THEN /\ resp' = [resp EXCEPT ![r] = Reply(500, {})]
             /\ pc' = [pc EXCEPT ![r] = AfterRaise]
             /\ UNCHANGED store
        ELSE /\ store' = UpdateRows(store, o.task, o.dirty)
             /\ pc' = [pc EXCEPT ![r] = "refresh"]
             /\ UNCHANGED resp
    /\ UNCHANGED <<sessions, closed, req, obj, pre, prev>>

\* db.commit() of delete_task, then return {"deleted": True, "id": task_id};
\* a DELETE that matches no row only warns
commit_delete(r) ==
    /\ pc[r] = "commit"
    /\ req[r].op = "delete_task"
    /\ store' = DeleteRows(store, obj[r].val.task.id)
    /\ resp' = [resp EXCEPT ![r] = Reply(200, {})]
    /\ pc' = [pc EXCEPT ![r] = "close"]
    /\ UNCHANGED <<sessions, closed, req, obj, pre, prev>>

\* db.refresh(task); return task.  Refreshing a row that is gone raises
refresh(r) ==
    /\ pc[r] = "refresh"
    /\ LET task == QueryFirst(store, obj[r].val.task.id) IN
        IF task = None
        THEN /\ resp' = [resp EXCEPT ![r] = Reply(500, {})]
             /\ pc' = [pc EXCEPT ![r] = AfterRaise]
        ELSE /\ resp' = [resp EXCEPT ![r] = response_model({task.val})]
             /\ pc' = [pc EXCEPT ![r] = After(response_model({task.val}))]
    /\ UNCHANGED <<store, sessions, closed, req, obj, pre, prev>>

\* get_db's finally: db.close()
db_close(r) ==
    /\ pc[r] = "close"
    /\ sessions' = sessions \ {r}
    /\ closed' = [closed EXCEPT ![r] = closed[r] + 1]
    /\ pc' = [pc EXCEPT ![r] = "done"]
    /\ UNCHANGED <<store, req, obj, resp, pre, prev>>

\* the answer is sent and the worker is free again
respond(r) ==
    /\ pc[r] = "done"
    /\ pc' = [pc EXCEPT ![r] = "idle"]
    /\ req' = [req EXCEPT ![r] = NoReq]
    /\ obj' = [obj EXCEPT ![r] = None]
    /\ resp' = [resp EXCEPT ![r] = NoResp]
    /\ closed' = [closed EXCEPT ![r] = 0]
    /\ UNCHANGED <<store, sessions>>

\* the handler's part of a request
Handle(r) ==
    \/ create_task(r)
    \/ list_tasks(r)
    \/ get_task(r)
    \/ update_task(r)
    \/ complete_task(r)
    \/ delete_task(r)
    \/ commit_update(r)
    \/ commit_delete(r)
    \/ refresh(r)
    \/ db_close(r)

\* what an observer of the service saw last
Served(r) ==
    [op |-> req[r].op, task_id |-> req[r].task_id,
     status_code |-> resp[r].status_code, body |-> resp[r].body]

(***************************************************************************)
(* Spec: one worker serves the requests one after the other, any request   *)
(***************************************************************************)
Worker == "r1"

\* a request arrives; pre remembers the table it found
Arrive(requests) == get_db(Worker, requests) /\ pre' = store /\ UNCHANGED prev

Answer == respond(Worker) /\ pre' = EmptyTable /\ UNCHANGED prev

Next == Arrive(Requests) \/ Handle(Worker) \/ Answer

Spec == Init /\ [][Next]_vars

(***************************************************************************)
(* SpecHist: the same, observed: prev records each answer as it is sent    *)
(***************************************************************************)
\* every request, the updates among them changing at most the title (to the
\* empty one) and the status
HistRequests ==
    {q \in Requests : q.op = "update_task" =>
        /\ q.body.title \in {Omitted, Given(TitleOfLen(0))}
        /\ q.body.due_date = Omitted
        /\ q.body.status \in {Omitted, Given("archived")}}

AnswerObserved == respond(Worker) /\ pre' = EmptyTable /\ prev' = Served(Worker)

NextHist == Arrive(HistRequests) \/ Handle(Worker) \/ AnswerObserved

SpecHist == Init /\ [][NextHist]_vars

(***************************************************************************)
(* SpecConc: two workers, whose storage statements interleave              *)
(***************************************************************************)
\* one Create body and one Update body: the requests differ in what they do
\* to a task and in the task they do it to
ConcRequests ==
    {q \in Requests :
        /\ q.op = "create_task" =>
            q.body.title = Given(TitleOfLen(min_length)) /\ q.body.due_date = Omitted
        /\ q.op = "update_task" =>
            /\ q.body.title = Omitted
            /\ q.body.due_date = Omitted
            /\ q.body.status = Given("archived")}

ArriveConc(r) == get_db(r, ConcRequests) /\ UNCHANGED <<pre, prev>>

AnswerConc(r) == respond(r) /\ UNCHANGED <<pre, prev>>

NextConc == \E r \in Reqs : ArriveConc(r) \/ Handle(r) \/ AnswerConc(r)

SpecConc == Init /\ [][NextConc]_vars

(***************************************************************************)
(* Vocabulary of the properties                                            *)
(***************************************************************************)
Done == pc[Worker] = "done"
Op == req[Worker].op
TaskId == req[Worker].task_id
Body == req[Worker].body
Code == resp[Worker].status_code

IdsOf(table) == {table[k].id : k \in DOMAIN table}

\* the slot of the task with this id (the id is in the table)
SlotOf(table, id) == CHOOSE k \in DOMAIN table : table[k].id = id

\* every row with another id is where and what it was
OthersUnchanged(before, after, id) ==
    /\ DOMAIN after \ Matching(after, id) = DOMAIN before \ Matching(before, id)
    /\ \A k \in DOMAIN before \ Matching(before, id) : after[k] = before[k]

\* a column of a row, as an Optional
Column(row, c) == IF c = "due_date" THEN row.due_date ELSE Some(row[c])

Columns == {"title", "due_date", "status"}

(***************************************************************************)
(* C1 *)
(***************************************************************************)
\* C1: every stored task has a title of 1 to 200 characters, and an Update
\* whose supplied title is the empty string is answered InvalidInput (422)
\* instead of being stored.
C1_TitleNeverEmpty ==
    /\ \A k \in DOMAIN store :
        Len(store[k].title) >= min_length /\ Len(store[k].title) <= max_length
    /\ (Done /\ Op = "update_task" /\ TaskId \in IdsOf(pre)
            /\ Body.title = Given(TitleOfLen(0))) => Code = 422

(***************************************************************************)
(* C2 *)
(***************************************************************************)
\* a field the body supplies: sent with a value, or, for the one nullable
\* field (due_date), sent as null
Supplied(body, c) == body[c].tag = "value" \/ (c = "due_date" /\ body[c] = Null)

\* C2 as stated: after an Update of an existing task, every supplied field
\* holds the value sent (a due_date sent as null: no due date), every other
\* field holds its prior value, the id is unchanged and so is every other task.
C2_Original ==
    (Done /\ Op = "update_task" /\ TaskId \in IdsOf(pre)) =>
        /\ TaskId \in IdsOf(store)
        /\ LET old == pre[SlotOf(pre, TaskId)]
               new == store[SlotOf(pre, TaskId)]
           IN /\ new.id = old.id
              /\ \A c \in Columns :
                    IF Supplied(Body, c)
                    THEN Column(new, c) = Optional(Body[c])
                    ELSE Column(new, c) = Column(old, c)
        /\ OthersUnchanged(pre, store, TaskId)

\* C2 amended: after an Update of an existing task, every field sent with a
\* non-null value holds that value, every field omitted or sent as null holds
\* its prior value, the id is unchanged and so is every other task.
C2_PartialUpdate ==
    (Done /\ Op = "update_task" /\ TaskId \in IdsOf(pre)) =>
        /\ TaskId \in IdsOf(store)
        /\ LET old == pre[SlotOf(pre, TaskId)]
               new == store[SlotOf(pre, TaskId)]
           IN /\ new.id = old.id
              /\ \A c \in Columns :
                    IF Body[c].tag = "value"
                    THEN Column(new, c) = Some(Body[c].val)
                    ELSE Column(new, c) = Column(old, c)
        /\ OthersUnchanged(pre, store, TaskId)

\* an Update of one field of a task has changed it, kept the two other
\* fields, and another task is in the table
C2_Witness ==
    /\ Done /\ Op = "update_task" /\ Code = 200
    /\ Body.title = Omitted /\ Body.status = Omitted /\ Body.due_date.tag = "value"
    /\ Cardinality(DOMAIN store) = 2
    /\ store[SlotOf(store, TaskId)].due_date # pre[SlotOf(pre, TaskId)].due_date
    /\ store[SlotOf(store, TaskId)].status = "completed"

(***************************************************************************)
(* C3 *)
(***************************************************************************)
\* C3: a request answered with an error leaves the table as it was when the
\* request arrived; a Create with an empty title is such a request (422), and
\* so is a Get, Update, Complete or Delete of an id that is not stored (404).
C3_ErrorsLeaveStore ==
    Done =>
        /\ Code # 200 => store = pre
        /\ (Op = "create_task" /\ Body.title = Given(TitleOfLen(0))) => Code = 422
        /\ (Op \in {"get_task", "update_task", "complete_task", "delete_task"}
                /\ TaskId \notin IdsOf(pre)) => Code = 404

(***************************************************************************)
(* C4 *)
(***************************************************************************)
\* C4: a Create with a valid title succeeds unless the generated id is taken;
\* a successful Create returns a task with status "pending" and the title
\* and due date sent, and a Get of the returned id that follows it directly
\* returns the very record Create returned.
C4_CreateThenGet ==
    /\ (Done /\ Op = "create_task" /\ ValidTitle(Body.title)) =>
        \/ Code = 200
        \/ Code = 500 /\ store = pre /\ store # EmptyTable
    /\ (Done /\ Op = "create_task" /\ Code = 200) =>
        \E t \in resp[Worker].body :
            /\ resp[Worker].body = {t}
            /\ t.status = "pending"
            /\ t.title = Body.title.val
            /\ t.due_date = Optional(Body.due_date)
    /\ (Done /\ Op = "get_task" /\ prev.op = "create_task" /\ prev.status_code = 200
            /\ TaskId \in {t.id : t \in prev.body}) =>
        resp[Worker] = Reply(200, prev.body)

\* a Get has answered right after the Create of the same task, which has a due date
C4_Witness ==
    /\ Done /\ Op = "get_task" /\ Code = 200
    /\ prev.op = "create_task" /\ prev.status_code = 200
    /\ \E t \in prev.body : t.id = TaskId /\ t.due_date # None

(***************************************************************************)
(* C5 *)
(***************************************************************************)
\* C5: after a Complete of an existing task its status is "completed"
\* whatever it was, its id, title and due date are as before, and the record
\* a successful Complete returns is the stored one; a Complete that directly
\* follows a successful Complete of the same id answers 200 with the same
\* record and leaves the table as it was.
C5_CompleteIdempotent ==
    /\ (Done /\ Op = "complete_task" /\ TaskId \in IdsOf(pre)) =>
        /\ TaskId \in IdsOf(store)
        /\ LET old == pre[SlotOf(pre, TaskId)]
               new == store[SlotOf(pre, TaskId)]
           IN /\ new = [id |-> old.id, title |-> old.title,
                        due_date |-> old.due_date, status |-> "completed"]
              /\ Code = 200 => resp[Worker].body = {new}
        /\ OthersUnchanged(pre, store, TaskId)
    /\ (Done /\ Op = "complete_task" /\ prev.op = "complete_task"
            /\ prev.status_code = 200 /\ prev.task_id = TaskId) =>
        /\ resp[Worker] = Reply(200, prev.body)
        /\ store = pre

\* a second Complete of the same task has answered
C5_Witness ==
    /\ Done /\ Op = "complete_task" /\ Code = 200
    /\ prev.op = "complete_task" /\ prev.status_code = 200 /\ prev.task_id = TaskId

(***************************************************************************)
(* C6 *)
(***************************************************************************)
\* C6: after a successful Delete the id is not in the table and every other
\* task is unchanged; a Get of the same id that follows it directly answers
\* 404, and a List that follows it directly holds no task with that id
\* (a successful List returns exactly the rows of the table).
C6_DeleteRemoves ==
    /\ (Done /\ Op = "delete_task" /\ TaskId \in IdsOf(pre)) =>
        /\ Code = 200
        /\ TaskId \notin IdsOf(store)
        /\ OthersUnchanged(pre, store, TaskId)
    /\ (Done /\ Op = "get_task" /\ prev.op = "delete_task"
            /\ prev.status_code = 200 /\ prev.task_id = TaskId) => Code = 404
    /\ (Done /\ Op = "list_tasks") =>
        /\ Code = 200 => resp[Worker].body = AllRows(store)
        /\ (prev.op = "delete_task" /\ prev.status_code = 200) =>
                \A t \in resp[Worker].body : t.id # prev.task_id

\* a Get of the id just deleted has answered, while another task is stored
C6_Witness ==
    /\ Done /\ Op = "get_task"
    /\ prev.op = "delete_task" /\ prev.status_code = 200 /\ prev.task_id = TaskId
    /\ store # EmptyTable

(***************************************************************************)
(* C7 *)
(***************************************************************************)
UniqueIds == \A j, k \in DOMAIN store : j # k => store[j].id # store[k].id

\* a row that stays in the table keeps its id
IdsFixed == \A k \in DOMAIN store \cap DOMAIN store' : store'[k].id = store[k].id

\* only create_task adds a row, and it leaves every row already stored as it
\* is (also when the generated id is taken: the answer is then an error)
OnlyCreateAdds ==
    /\ (DOMAIN store' \ DOMAIN store # {}) => Op = "create_task"
    /\ (pc[Worker] = "handler" /\ Op = "create_task") =>
        /\ \A k \in DOMAIN store : k \in DOMAIN store' /\ store'[k] = store[k]
        /\ \A k \in DOMAIN store' \ DOMAIN store :
            IF store'[k].id \in IdsOf(store)
            THEN FALSE
            ELSE pc'[Worker] = "refresh"
        /\ DOMAIN store' = DOMAIN store => (pc'[Worker] = "close" /\ resp'[Worker].status_code = 500)

\* C7: no two stored tasks share an id; a task keeps its id as long as it is
\* stored, whatever Update or Complete does; rows are added only by Create,
\* which never overwrites or duplicates a stored row when the id it generated
\* is already taken.
C7_IdUniqueAndFixed == [](UniqueIds) /\ [][IdsFixed /\ OnlyCreateAdds]_vars

\* a Create whose generated id was taken has been answered, and the stored
\* row with that id is untouched
C7_Witness ==
    /\ Done /\ Op = "create_task" /\ Code = 500
    /\ store # EmptyTable /\ store = pre

(***************************************************************************)
(* C8 *)
(***************************************************************************)
\* C8: also when requests interleave, a Get, Update, Complete or Delete ends
\* in success (200) or NotFound (404).
C8_SuccessOrNotFound ==
    \A r \in Reqs :
        (pc[r] = "done" /\ req[r].op \in {"get_task", "update_task", "complete_task", "delete_task"})
            => resp[r].status_code \in {200, 404}

(***************************************************************************)
(* C9 *)
(***************************************************************************)
\* C9: a request holds an open session from its arrival until its session is
\* closed, and once it has ended its session was closed exactly once and is
\* not open, on every path; when no request is in progress no session is open.
C9_SessionReleased ==
    /\ \A r \in Reqs :
        /\ pc[r] = "idle" => (r \notin sessions /\ closed[r] = 0)
        /\ pc[r] \in {"handler", "commit", "refresh", "close"} => (r \in sessions /\ closed[r] = 0)
        /\ pc[r] = "done" => (r \notin sessions /\ closed[r] = 1)
    /\ (\A r \in Reqs : pc[r] \in {"idle", "done"}) => sessions = {}

\* an Update whose commit failed (its row was deleted under it) has ended,
\* and no session is open
C9_Witness ==
    \E r \in Reqs :
        /\ pc[r] = "done" /\ req[r].op = "update_task" /\ resp[r].status_code = 500
        /\ obj[r].val.dirty # {}
        /\ closed[r] = 1
        /\ sessions = {}

(***************************************************************************)
(* C10 *)
(***************************************************************************)
\* a stored task that has a due date and stays stored still has a due date
DueDateStays ==
    \A k \in DOMAIN store \cap DOMAIN store' :
        store[k].due_date # None => store'[k].due_date # None

\* an Update that sends due_date as null, or omits it, leaves the due date
NullLikeOmitted ==
    (Done /\ Op = "update_task" /\ TaskId \in IdsOf(pre) /\ Body.due_date \in {Null, Omitted}) =>
        /\ TaskId \in IdsOf(store)
        /\ store[SlotOf(store, TaskId)].due_date = pre[SlotOf(pre, TaskId)].due_date

\* C10: Update treats a due_date of null like an omitted one, so no Update
\* or Complete removes the due date of a stored task.
C10_DueDateNeverCleared == [](NullLikeOmitted) /\ [][DueDateStays]_vars

\* an Update sending due_date: null has answered, and the task still has its due date
C10_Witness ==
    /\ Done /\ Op = "update_task" /\ Code = 200
    /\ Body.due_date = Null
    /\ store[SlotOf(store, TaskId)].due_date # None

====
